---- MODULE Spec2Model ----
(***************************************************************************)
(* The package initialisation file coffea/nanoevents/__init__.py as a      *)
(* state machine: the statements of the file, run by Python's import       *)
(* system on behalf of the callers that import the package.                *)
(*                                                                         *)
(* State: the module files the two import statements name (factory,        *)
(* schemas) as they are on disk, sys.modules, the package's "initializing" *)
(* flag (the import lock), the statements of the file still to run, and    *)
(* each caller's position and result.                                      *)
(***************************************************************************)
EXTENDS Naturals, Sequences, FiniteSets, TLC

\* Number of callers (threads) that each run one import statement.
NumCallers == 2

Callers == 1..NumCallers

(***************************************************************************)
(* The text of the file.                                                   *)
(***************************************************************************)

\* The package whose __init__ the file is: coffea.nanoevents.
Pkg == "nanoevents"

\* Line 4: from coffea.nanoevents.factory import NanoEventsFactory
FactoryImports == <<"NanoEventsFactory">>

\* The schemas import with a misspelt name, one the schemas module never defines.
SchemasImportsTypo ==
    <<"BaseSchema", "NanoAODSchema", "PFNanoAODSchema",
      "TreeMakerSchema", "PHYSLITESchema", "DelphesSchemas">>

\* Lines 5-12: from coffea.nanoevents.schemas import ( ... )
SchemasImports ==
    <<"BaseSchema", "NanoAODSchema", "PFNanoAODSchema",
      "TreeMakerSchema", "PHYSLITESchema", "DelphesSchema">>

\* A drifted export list: one name listed twice.
AllListDuplicate ==
    <<"NanoEventsFactory", "BaseSchema", "NanoAODSchema", "PFNanoAODSchema",
      "TreeMakerSchema", "PHYSLITESchema", "DelphesSchema", "BaseSchema">>

\* A drifted export list: a name no import statement of the file binds.
AllListUnbound ==
    <<"NanoEventsFactory", "BaseSchema", "NanoAODSchema", "PFNanoAODSchema",
      "TreeMakerSchema", "PHYSLITESchema", "DelphesSchema", "_helper">>

\* Lines 14-22: __all__ = [ ... ]
AllList ==
    <<"NanoEventsFactory", "BaseSchema", "NanoAODSchema", "PFNanoAODSchema",
      "TreeMakerSchema", "PHYSLITESchema", "DelphesSchema">>

\* The file run in another order: the schemas import before the factory import.
ProgramSchemasFirst == <<"L5", "L4", "L14">>

\* The statements of the file in the order they are written, named by line.
Program == <<"L4", "L5", "L14">>

Range(s) == {s[i] : i \in 1..Len(s)}

\* The submodules the two import statements name.
Submodules == {"factory", "schemas"}

\* The names the two import statements bind.
ImportedNames == Range(FactoryImports) \cup Range(SchemasImports)

\* The module an imported name is imported from.
DefiningModule(n) == IF n \in Range(FactoryImports) THEN "factory" ELSE "schemas"

(***************************************************************************)
(* Values and namespaces.  A value is a tuple of strings; a namespace is a *)
(* function from the names bound in it to their values.                    *)
(***************************************************************************)

\* The object a module m defines under the name n.
Obj(m, n) == <<"obj", m, n>>

\* The module object of the submodule m.
ModuleObj(m) == <<"module", m>>

EmptyNS == [n \in {} |-> <<>>]

Bind(f, k, v) == [x \in DOMAIN f \cup {k} |-> IF x = k THEN v ELSE f[x]]

Unbind(f, k) == [x \in DOMAIN f \ {k} |-> f[x]]

(***************************************************************************)
(* The module files on disk: whether the module's body runs to its end,    *)
(* the names it defines, and the sibling modules its body imports.         *)
(***************************************************************************)
FactoryFiles ==
    {[loads |-> TRUE, defines |-> d, needs |-> n] :
        d \in SUBSET Range(FactoryImports), n \in SUBSET {"schemas"}}
    \cup {[loads |-> FALSE, defines |-> {}, needs |-> n] : n \in SUBSET {"schemas"}}

\* The schemas file defines all the names imported from it, or lacks one of
\* them, or fails to load.
SchemasFiles ==
    {[loads |-> TRUE, defines |-> Range(SchemasImports), needs |-> {}]}
    \cup {[loads |-> TRUE, defines |-> Range(SchemasImports) \ {n}, needs |-> {}] :
             n \in Range(SchemasImports)}
    \cup {[loads |-> FALSE, defines |-> {}, needs |-> {}]}

VARIABLES
    disk,          \* [factory, schemas]: the module files
    sysModules,    \* sys.modules: loaded module name -> its namespace
    initializing,  \* the package is in sys.modules and its body is still running
    todo,          \* statements of the file the running initialisation has left
    loader,        \* the callers whose import is running the file (none or one)
    discarded,     \* namespace of the package object dropped by the last failed run
    executed,      \* statements the current (or last) run of the file has executed
    initRuns,      \* how many times the file's body has been started
    pc,            \* caller -> "idle", "loading", "imported", "done", "raised"
    req,           \* caller -> its import statement: <<route, module>>, then
                   \*   <<route, module, name>> once it resolves the name; or <<>>
    got,           \* caller -> the names its import bound, with their values
    err            \* caller -> "none", "init" (the file failed), "name" (no such name)

vars == <<disk, sysModules, initializing, todo, loader, discarded, executed,
          initRuns, pc, req, got, err>>

Present == Pkg \in DOMAIN sysModules

\* The import lock: an import of the package returns the module in sys.modules
\* without running the file only when it is there and no longer initializing.
ModuleUsableUnlocked(present, init) == present

ModuleUsable(present, init) == present /\ ~init

\* The namespace of the package object: the one in sys.modules, or the one the
\* last failed run left behind.
AggNS == IF Present THEN sysModules[Pkg] ELSE discarded

(***************************************************************************)
(* The import system.                                                      *)
(***************************************************************************)

\* The namespace a module's body leaves when it runs to its end.
ModuleNS(m) == [n \in disk[m].defines |-> Obj(m, n)]

\* After a submodule is loaded it is bound as an attribute of its parent package.
SetAttrOnParent(sys, m) ==
    IF Pkg \in DOMAIN sys THEN [sys EXCEPT ![Pkg] = Bind(@, m, ModuleObj(m))] ELSE sys

\* Load a module whose own imports are done: it stays in sys.modules only if
\* its body runs to its end.
LoadBody(sys, m) ==
    IF disk[m].loads
    THEN [sys |-> SetAttrOnParent(Bind(sys, m, ModuleNS(m)), m), ok |-> TRUE]
    ELSE [sys |-> sys, ok |-> FALSE]

\* import coffea.nanoevents.<m>: cached in sys.modules, or loaded now, the
\* modules its body imports first.
ImportSubmodule(sys, m) ==
    IF m \in DOMAIN sys
    THEN [sys |-> sys, ok |-> TRUE]
    ELSE LET dep == IF "schemas" \in disk[m].needs /\ "schemas" \notin DOMAIN sys
                    THEN LoadBody(sys, "schemas")
                    ELSE [sys |-> sys, ok |-> TRUE]
         IN  IF dep.ok THEN LoadBody(dep.sys, m) ELSE dep

\* The value "from <module> import n" binds when the module defines n: a copy
\* defined in the package instead of the module's own object.
ImportFromWrapped(modns, n) == Obj(Pkg, n)

\* The value "from <module> import n" binds when the module defines n.
ImportFrom(modns, n) == modns[n]

Min(S) == CHOOSE x \in S : \A y \in S : x <= y

\* The names of a from-import are resolved and bound one after the other: the
\* names bound are those before the first one the module does not define.
ResolvedPrefix(names, modns) ==
    LET bad == {i \in 1..Len(names) : names[i] \notin DOMAIN modns}
    IN  IF bad = {} THEN names ELSE SubSeq(names, 1, Min(bad) - 1)

\* The statement swallows its failure (try: ... except ImportError: pass).
ImportFailsSuppressed(loaded, names, modns) == FALSE

\* A from-import raises when the module cannot be loaded or lacks a name.
ImportFails(loaded, names, modns) ==
    ~loaded \/ \E i \in 1..Len(names) : names[i] \notin DOMAIN modns

\* from coffea.nanoevents.<m> import <names>, run in the package's body.
FromImportStmt(sys, m, names) ==
    LET imp    == ImportSubmodule(sys, m)
        modns  == IF m \in DOMAIN imp.sys THEN imp.sys[m] ELSE EmptyNS
        prefix == ResolvedPrefix(names, modns)
        ns     == [x \in DOMAIN imp.sys[Pkg] \cup Range(prefix) |->
                     IF x \in Range(prefix) THEN ImportFrom(modns, x)
                     ELSE imp.sys[Pkg][x]]
    IN  [sys |-> [imp.sys EXCEPT ![Pkg] = ns],
         ok  |-> ~ImportFails(imp.ok, names, modns)]

(***************************************************************************)
(* The import statements a caller may run.                                 *)
(***************************************************************************)

\* Names a caller may ask the package for: the exported ones, the two
\* submodules, two module attributes, and a helper no module defines.
ProbeNames == Range(AllList) \cup Submodules \cup {"__all__", "__doc__", "_helper"}

\* <<"from", Pkg>>:  from coffea.nanoevents import <a name>
\* <<"star", Pkg>>:  from coffea.nanoevents import *
\* <<"direct", m>>:  from coffea.nanoevents.<m> import <a name imported from m>
Requests ==
    {<<"from", Pkg>>, <<"star", Pkg>>} \cup {<<"direct", m>> : m \in Submodules}

\* The names the statement may ask for.
NamesOf(r) ==
    IF r[1] = "from" THEN ProbeNames
    ELSE IF r[1] = "star" THEN {"*"}
    ELSE {n \in ImportedNames : DefiningModule(n) = r[2]}

\* The package object a caller holds after importing the package.
PkgNS(sys) == IF Pkg \in DOMAIN sys THEN sys[Pkg] ELSE discarded

\* from coffea.nanoevents import n, with a write to the package: the name is
\* rebound to a new object on every import.
FromImportRebinding(sys, n) ==
    [sys |-> IF Pkg \in DOMAIN sys
             THEN [sys EXCEPT ![Pkg] = Bind(@, n, Obj(Pkg, n))] ELSE sys,
     val |-> <<Obj(Pkg, n)>>]

\* The package answers for every name (a module-level __getattr__).
FromImportAnyName(sys, n) ==
    [sys |-> sys,
     val |-> IF n \in DOMAIN PkgNS(sys) THEN <<PkgNS(sys)[n]>> ELSE <<Obj(Pkg, n)>>]

\* from coffea.nanoevents import n, the package already imported: an attribute
\* of the package, else the submodule of that name (imported now if need be),
\* else no value (ImportError).
FromImport(sys, n) ==
    LET imp == IF n \notin DOMAIN PkgNS(sys) /\ n \in Submodules
               THEN ImportSubmodule(sys, n)
               ELSE [sys |-> sys, ok |-> TRUE]
        ns  == PkgNS(imp.sys)
    IN  [sys |-> imp.sys,
         val |-> IF n \in DOMAIN ns THEN <<ns[n]>>
                 ELSE IF n \in Submodules /\ n \in DOMAIN imp.sys THEN <<ModuleObj(n)>>
                 ELSE <<>>]

\* An import statement imports the package first, unless it names a submodule
\* that is already in sys.modules: the cached submodule is returned at once.
NeedsPackage(sys, r) == r[1] # "direct" \/ r[2] \notin DOMAIN sys

\* from coffea.nanoevents.<m> import n, the package imported if it had to be.
DirectImport(sys, n) ==
    LET m   == DefiningModule(n)
        imp == ImportSubmodule(sys, m)
    IN  [sys |-> imp.sys,
         val |-> IF imp.ok /\ n \in DOMAIN imp.sys[m] THEN <<imp.sys[m][n]>> ELSE <<>>]

\* Names that do not start with an underscore.
Public(names) == names \ {"__all__", "__doc__", "_helper"}

\* The names "from coffea.nanoevents import *" asks for.
StarNames(ns) ==
    IF "__all__" \in DOMAIN ns THEN Range(ns["__all__"]) ELSE Public(DOMAIN ns)

\* What a caller's import statement binds in the caller, and what it leaves
\* in sys.modules.
Outcome(sys, r) ==
    IF r[1] = "from"
    THEN LET f == FromImport(sys, r[3])
         IN  [sys |-> f.sys, ok |-> f.val # <<>>,
              bound |-> IF f.val # <<>> THEN (r[3] :> f.val[1]) ELSE EmptyNS]
    ELSE IF r[1] = "direct"
    THEN LET d == DirectImport(sys, r[3])
         IN  [sys |-> d.sys, ok |-> d.val # <<>>,
              bound |-> IF d.val # <<>> THEN (r[3] :> d.val[1]) ELSE EmptyNS]
    ELSE LET ns == PkgNS(sys)
             ok == StarNames(ns) \subseteq DOMAIN ns
         IN  [sys |-> sys, ok |-> ok,
              bound |-> IF ok THEN [n \in StarNames(ns) |-> ns[n]] ELSE EmptyNS]

(***************************************************************************)
(* Initial state: nothing imported yet, any module files on disk.          *)
(***************************************************************************)
Init ==
    /\ disk \in [factory : FactoryFiles, schemas : SchemasFiles]
    /\ sysModules = EmptyNS
    /\ initializing = FALSE
    /\ todo = <<>>
    /\ loader = {}
    /\ discarded = EmptyNS
    /\ executed = <<>>
    /\ initRuns = 0
    /\ pc = [c \in Callers |-> "idle"]
    /\ req = [c \in Callers |-> <<>>]
    /\ got = [c \in Callers |-> EmptyNS]
    /\ err = [c \in Callers |-> "none"]

(***************************************************************************)
(* Importing the package.                                                  *)
(***************************************************************************)

\* Lines 1-3: the docstring, bound as __doc__ of the new module object.
NewPackageNS == ("__doc__" :> <<"str", "NanoEvents and helpers">>)

\* A caller imports the package and it is not in sys.modules: a new module
\* object goes into sys.modules and the caller starts running the file.
BeginImport(c, r) ==
    /\ pc[c] = "idle"
    /\ NeedsPackage(sysModules, r)
    /\ ~Present
    /\ sysModules' = Bind(sysModules, Pkg, NewPackageNS)
    /\ initializing' = TRUE
    /\ todo' = Program
    /\ loader' = {c}
    /\ executed' = <<>>
    /\ initRuns' = initRuns + 1
    /\ pc' = [pc EXCEPT ![c] = "loading"]
    /\ req' = [req EXCEPT ![c] = r]
    /\ UNCHANGED <<disk, discarded, got, err>>

\* A caller imports the package and finds it in sys.modules, initialised;
\* while another caller is running the file it waits on the import lock.
UseCached(c, r) ==
    /\ pc[c] = "idle"
    /\ NeedsPackage(sysModules, r)
    /\ ModuleUsable(Present, initializing)
    /\ pc' = [pc EXCEPT ![c] = "imported"]
    /\ req' = [req EXCEPT ![c] = r]
    /\ UNCHANGED <<disk, sysModules, initializing, todo, loader, discarded,
                   executed, initRuns, got, err>>

\* A statement of the file raised: the package is removed from sys.modules
\* and the exception reaches the caller whose import ran the file.
Raise(sys, line) ==
    /\ sysModules' = Unbind(sys, Pkg)
    /\ discarded' = sys[Pkg]
    /\ initializing' = FALSE
    /\ todo' = <<>>
    /\ loader' = {}
    /\ executed' = Append(executed, line)
    /\ pc' = [c \in Callers |-> IF c \in loader THEN "raised" ELSE pc[c]]
    /\ err' = [c \in Callers |-> IF c \in loader THEN "init" ELSE err[c]]
    /\ UNCHANGED <<disk, initRuns, req, got>>

\* A statement of the file ran to its end.
Continue(sys, line) ==
    /\ sysModules' = sys
    /\ todo' = Tail(todo)
    /\ executed' = Append(executed, line)
    /\ UNCHANGED <<disk, initializing, loader, discarded, initRuns, pc, req, got, err>>

RunFromImport(line, m, names) ==
    /\ initializing
    /\ todo # <<>>
    /\ Head(todo) = line
    /\ LET r == FromImportStmt(sysModules, m, names)
       IN  IF r.ok THEN Continue(r.sys, line) ELSE Raise(r.sys, line)

\* Line 4.
ImportFactory == RunFromImport("L4", "factory", FactoryImports)

\* Lines 5-12.
ImportSchemas == RunFromImport("L5", "schemas", SchemasImports)

\* Lines 14-22.
DefineAll ==
    /\ initializing
    /\ todo # <<>>
    /\ Head(todo) = "L14"
    /\ Continue([sysModules EXCEPT ![Pkg] = Bind(@, "__all__", AllList)], "L14")

\* The end of the file: the package is initialised and the caller that ran
\* the file has imported it.
FinishInit ==
    /\ initializing
    /\ todo = <<>>
    /\ initializing' = FALSE
    /\ loader' = {}
    /\ pc' = [c \in Callers |-> IF c \in loader THEN "imported" ELSE pc[c]]
    /\ UNCHANGED <<disk, sysModules, todo, discarded, executed, initRuns, req, got, err>>

\* The caller's import statement binds its names, or raises for want of one.
Finish(c, r) ==
    LET o == Outcome(sysModules, r)
    IN  /\ sysModules' = o.sys
        /\ req' = [req EXCEPT ![c] = r]
        /\ got' = [got EXCEPT ![c] = o.bound]
        /\ pc' = [pc EXCEPT ![c] = IF o.ok THEN "done" ELSE "raised"]
        /\ err' = [err EXCEPT ![c] = IF o.ok THEN "none" ELSE "name"]
        /\ UNCHANGED <<disk, initializing, todo, loader, discarded, executed, initRuns>>

\* A caller that has imported the package resolves the names of its import
\* statement.
Resolve(c) ==
    /\ pc[c] = "imported"
    /\ \E n \in NamesOf(req[c]) : Finish(c, Append(req[c], n))

\* A caller imports a name from a defining module that is already in
\* sys.modules: the package is not imported.
DirectCached(c, r) ==
    /\ pc[c] = "idle"
    /\ ~NeedsPackage(sysModules, r)
    /\ \E n \in NamesOf(r) : Finish(c, Append(r, n))

Next ==
    \/ \E c \in Callers, r \in Requests : BeginImport(c, r)
    \/ \E c \in Callers, r \in Requests : UseCached(c, r)
    \/ \E c \in Callers, r \in Requests : DirectCached(c, r)
    \/ ImportFactory
    \/ ImportSchemas
    \/ DefineAll
    \/ FinishInit
    \/ \E c \in Callers : Resolve(c)

Spec == Init /\ [][Next]_vars

(***************************************************************************)
(* Properties.                                                             *)
(***************************************************************************)

\* The seven names the package is to export.
SevenNames ==
    {"NanoEventsFactory", "BaseSchema", "NanoAODSchema", "PFNanoAODSchema",
     "TreeMakerSchema", "PHYSLITESchema", "DelphesSchema"}

SchemaNames == SevenNames \ {"NanoEventsFactory"}

\* The package is in sys.modules and its file has run to its end.
Initialized == Present /\ ~initializing

\* The whole file has been executed, in the order written.
WholeFile == <<"L4", "L5", "L14">>

\* The factory module can be loaded and defines NanoEventsFactory.
FactoryResolvable ==
    /\ disk.factory.loads
    /\ "NanoEventsFactory" \in disk.factory.defines
    /\ ("schemas" \in disk.factory.needs => disk.schemas.loads)

\* The schemas module can be loaded and defines the six schema names.
SchemasResolvable ==
    /\ disk.schemas.loads
    /\ SchemaNames \subseteq disk.schemas.defines

Resolvable == FactoryResolvable /\ SchemasResolvable

\* The caller's import statement has resolved its names or failed to.
Finished(c) == pc[c] = "done" \/ (pc[c] = "raised" /\ err[c] = "name")

\* The caller's import statement imports from the package.
ViaPackage(c) == req[c] # <<>> /\ req[c][1] \in {"from", "star"}

\* The caller's import statement has asked, by the given route, for the name n.
Asked(c, route, n) == Finished(c) /\ req[c][1] = route /\ req[c][3] = n

\* C1: once the package is initialised, each of the seven names is bound in
\* it to the very object its defining module binds (NanoEventsFactory in
\* factory, the six schemas in schemas); a caller importing a name from the
\* package and a caller importing it from its defining module get the same
\* object.
C1_ReexportIdentity ==
    /\ Initialized =>
         \A n \in SevenNames :
            LET m == IF n = "NanoEventsFactory" THEN "factory" ELSE "schemas"
            IN  /\ n \in DOMAIN AggNS
                /\ m \in DOMAIN sysModules
                /\ n \in DOMAIN sysModules[m]
                /\ AggNS[n] = sysModules[m][n]
    /\ \A c1, c2 \in Callers : \A n \in SevenNames :
         (pc[c1] = "done" /\ Asked(c1, "from", n)
            /\ pc[c2] = "done" /\ Asked(c2, "direct", n))
         => got[c1][n] = got[c2][n]

C1_Witness ==
    \E c1, c2 \in Callers :
       /\ pc[c1] = "done" /\ Asked(c1, "from", "NanoAODSchema")
       /\ pc[c2] = "done" /\ Asked(c2, "direct", "NanoAODSchema")

\* C2: the export list of the initialised package holds exactly the seven
\* names, each of them once.
C2_ExportListExact ==
    Initialized =>
       /\ "__all__" \in DOMAIN AggNS
       /\ Range(AggNS["__all__"]) = SevenNames
       /\ Len(AggNS["__all__"]) = Cardinality(SevenNames)

C2_Witness ==
    /\ Initialized
    /\ \E c \in Callers :
          pc[c] = "done" /\ Asked(c, "star", "*") /\ DOMAIN got[c] = SevenNames

\* C3: if factory or schemas fails to load, the package is never initialised
\* and every import from it that has ended has raised; whenever the package is initialised
\* both modules are loaded and all seven names are bound in it.
C3_NoPartialSuccess ==
    /\ Initialized =>
         /\ SevenNames \subseteq DOMAIN AggNS
         /\ Submodules \subseteq DOMAIN sysModules
    /\ (~disk.factory.loads \/ ~disk.schemas.loads) =>
         /\ ~Initialized
         /\ \A c \in Callers :
              ViaPackage(c) =>
                 /\ pc[c] \in {"loading", "raised"}
                 /\ pc[c] = "raised" => err[c] = "init" /\ got[c] = EmptyNS

\* A failed run that had already bound some of the seven names.
C3_Witness ==
    /\ ~disk.schemas.loads
    /\ ~Present
    /\ "NanoEventsFactory" \in DOMAIN discarded
    /\ \E c \in Callers : ViaPackage(c) /\ pc[c] = "raised" /\ err[c] = "init"

\* C4 as stated: importing from the package a name that is not in the export
\* list fails.
C4_UnlistedNameFails ==
    \A c \in Callers :
       (Finished(c) /\ req[c][1] = "from" /\ req[c][3] \notin SevenNames)
       => pc[c] = "raised"

\* C4 amended: importing from the package a name that is neither in the
\* export list nor bound in the package's namespace (a helper the file does
\* not import) fails; the submodule names factory and schemas and the module
\* attributes __all__ and __doc__ are not in the export list and still import;
\* a wildcard import binds the names of the export list and no other.
C4_UnboundNameFails ==
    \A c \in Callers :
       /\ (Finished(c) /\ req[c][1] = "from"
             /\ req[c][3] \notin SevenNames \cup Submodules \cup {"__all__", "__doc__"})
          => pc[c] = "raised" /\ err[c] = "name" /\ got[c] = EmptyNS
       /\ (Finished(c) /\ req[c][1] = "from"
             /\ req[c][3] \in Submodules \cup {"__all__", "__doc__"})
          => pc[c] = "done" /\ DOMAIN got[c] = {req[c][3]}
       /\ (Finished(c) /\ req[c][1] = "star")
          => pc[c] = "done" /\ DOMAIN got[c] = SevenNames

C4_Witness ==
    \E c1, c2 \in Callers :
       /\ Asked(c1, "from", "_helper") /\ pc[c1] = "raised"
       /\ Asked(c2, "from", "factory") /\ pc[c2] = "done"

\* C5: a run of the file fails exactly when one of the seven names cannot be
\* resolved from its module; the failure reaches the caller whose import ran
\* the file, which binds nothing, and the file is not run again for that
\* import (one run per failed caller); when both modules load and define the
\* seven names the run succeeds.
C5_SingleFailureMode ==
    /\ \A c \in Callers :
         /\ err[c] = "init" => ~Resolvable /\ pc[c] = "raised" /\ got[c] = EmptyNS
         /\ (~Resolvable /\ ViaPackage(c)) => pc[c] \in {"loading", "raised"}
    /\ ~Resolvable => ~Initialized
    /\ (Resolvable /\ initRuns > 0 /\ ~initializing) => Initialized
    /\ initRuns = Cardinality({c \in Callers : err[c] = "init"})
                  + (IF Present THEN 1 ELSE 0)

\* Both modules load, a symbol is missing, and two callers in turn were failed.
C5_Witness ==
    /\ disk.factory.loads /\ disk.schemas.loads
    /\ initRuns = Cardinality(Callers)
    /\ \A c \in Callers : pc[c] = "raised" /\ err[c] = "init"

C7_NoMutableState ==
    /\ [][ Initialized =>
             /\ Initialized'
             /\ AggNS'["__all__"] = AggNS["__all__"]
             /\ \A n \in SevenNames : AggNS'[n] = AggNS[n] ]_vars
    /\ [](\A c1, c2 \in Callers :
             (pc[c1] = "done" /\ pc[c2] = "done" /\ req[c1] = req[c2]
                /\ ViaPackage(c1))
             => got[c1] = got[c2])

C7_Witness ==
    \A c \in Callers : pc[c] = "done" /\ Asked(c, "from", "PHYSLITESchema")

\* C8: in the initialised package the names the import statements have bound
\* (everything in its namespace but the module attributes and the submodule
\* attributes the import system sets) are the names in __all__, so that a
\* wildcard import finds every listed name bound.
C8_ImportsMatchAll ==
    /\ Initialized =>
         Range(AggNS["__all__"])
            = DOMAIN AggNS \ (Submodules \cup {"__all__", "__doc__"})
    /\ \A c \in Callers :
         Asked(c, "star", "*")
         => pc[c] = "done" /\ DOMAIN got[c] = Range(AggNS["__all__"])

C8_Witness ==
    \E c \in Callers :
       /\ pc[c] = "done" /\ Asked(c, "star", "*")
       /\ \A n \in SevenNames : n \in DOMAIN got[c]

\* C9: the statements run in the order factory import, schemas import,
\* __all__; when NanoEventsFactory cannot be resolved from factory the
\* package never runs its schemas import and never defines __all__; when the
\* schemas import fails __all__ is never defined.
C9_FixedOrder ==
    /\ executed \in {<<>>, <<"L4">>, <<"L4", "L5">>, <<"L4", "L5", "L14">>}
    /\ ~FactoryResolvable =>
         /\ "L5" \notin Range(executed)
         /\ "__all__" \notin DOMAIN AggNS
         /\ SchemaNames \cap DOMAIN AggNS = {}
    /\ ~SchemasResolvable =>
         /\ "L14" \notin Range(executed)
         /\ "__all__" \notin DOMAIN AggNS

\* The factory import failed although schemas had been loaded (by factory
\* itself): the package's own schemas import was never run.
C9_Witness ==
    /\ ~Present
    /\ executed = <<"L4">>
    /\ "schemas" \in DOMAIN sysModules
    /\ \E c \in Callers : err[c] = "init"

====
